---- MODULE Spec2Model ----
(***************************************************************************)
(* The Telegram business-mode message store: the per-chat JSONL log        *)
(* (messages.jsonl), the per-chat metadata document (meta.json), the       *)
(* compaction (deduplicateMessages, maybePruneChatMessages) and the event  *)
(* handlers that feed them.                                                *)
(*                                                                         *)
(* A file that exists is TextFile(lines), the sequence of its lines; one    *)
(* that does not is MissingFile.  A line is [raw |-> "json", value |-> r]  *)
(* for the serialisation of record r, [raw |-> "blank"] for an empty line, *)
(* [raw |-> "corrupt"] for a line no JSON.parse accepts.  Every line ends  *)
(* with a newline but, possibly, the last one when a write was cut short:  *)
(* [raw |-> "partial"] is a proper prefix of a serialisation and           *)
(* [raw |-> "unterminated", value |-> r] a whole serialisation without its *)
(* newline.  connections.json is a document like meta.json; the object it  *)
(* holds under "connections" is the sequence of its values in the order    *)
(* their keys were inserted.  A stored message carries the                 *)
(* fields the store reads (messageId, date, event, text, caption,          *)
(* deletedMessageIds); storedAt, the sender fields, direction,             *)
(* replyToMessageId and businessConnectionId are written by                *)
(* extractStoredMessage and read by no operation of the store, so they are *)
(* left out of the records.  An optional field that is undefined is a key  *)
(* the record does not have (JSON.stringify drops it).                     *)
(***************************************************************************)
EXTENDS Integers, Sequences, FiniteSets, TLC

\* ------------------------------------------------------------------ bounds
MaxMsgId == 2
MaxDay == 2
MaxLines == 3
MaxLinesAll == 2
MaxIncs == 3
MaxIncsAll == 2
MaxMessagesOpt == 2
MaxAgeDaysOpt == 1
MaxChat == 3
MaxBulk == 52
MaxBulkOther == 2
MaxSearchLimit == 3
MaxLinesDir == 3

\* ------------------------------------------------------- program constants
MsPerSec == 1000
SecPerDay == 86400
DefaultLimit == 50
DefaultSearchLimit == 20

\* The chats of the store specifications
Chats == {1, 2}
\* The chats of the directory specifications
AllChats == 1..MaxChat
MsgIds == 1..MaxMsgId
\* msg.date: seconds since the epoch, assigned by the platform.
Dates == {d * SecPerDay : d \in 0..(MaxDay - 1)}
\* Date.now(): milliseconds since the epoch.
Times == {d * SecPerDay * MsPerSec : d \in MaxDay..(MaxDay + 1)}
\* The text a message carries (msg.text), a string being the sequence of its
\* characters
Bodies == {[text |-> <<"v", "1">>]}
\* The bodies of the messages that are searched: a text, a text that hides a
\* caption, a caption alone, neither (a photo without a caption)
SearchBodies ==
    {[text |-> <<"A", "b">>],
     [text |-> <<"x">>, caption |-> <<"a", "b">>],
     [caption |-> <<"a", "B">>],
     [k \in {} |-> <<>>]}
\* The strings a caller searches for
Queries == {<<"a", "b">>, <<"A", "B">>, <<"b">>, <<"x">>, <<"b", "a">>, <<>>}
\* deleted.message_ids: the non-empty ascending id lists.
DeletedIdLists ==
    {s \in UNION {[1..n -> MsgIds] : n \in 1..MaxMsgId} :
        \A i \in 1..(Len(s) - 1) : s[i] < s[i + 1]}

VARIABLES
    log,      \* log[c]: chats/<c>/messages.jsonl, the sequence of its lines
    meta,     \* meta[c]: chats/<c>/meta.json, a document or MissingFile
    now,      \* Date.now()
    enabled,  \* cfg.channels.telegram.business.enabled === true
    incs,     \* incs[c]: updateChatMeta calls with incrementCount so far
    handled,  \* handled[c]: business_message events stored so far
    last,     \* the operation that ran last, with its arguments and outcome
    connections,  \* connections.json, a document or MissingFile
    saved,    \* saved[id]: the record the last saveBusinessConnection for id got
    deletedEver  \* deletedEver[c]: the ids the markers appended for c named (a
                 \* history the deletion specification keeps, not program state)

vars == <<log, meta, now, enabled, incs, handled, last, connections, saved, deletedEver>>

connVars == <<connections, saved>>

\* ------------------------------------------------------------ small helpers
Range(s) == {s[i] : i \in DOMAIN s}

Min(a, b) == IF a <= b THEN a ELSE b

\* s.slice(-n) for n > 0
SliceLast(s, n) == IF Len(s) <= n THEN s ELSE SubSeq(s, Len(s) - n + 1, Len(s))

\* {...a, ...b}: the keys of both, a key of b with the value b gives it
Spread(a, b) == b @@ a

\* ------------------------------------------------------------------- files
MissingFile == [raw |-> "missing"]
TextFile(lines) == [raw |-> "text", lines |-> lines]
BlankLine == [raw |-> "blank"]
CorruptLine == [raw |-> "corrupt"]

\* JSON.stringify(value) as one line or one document
Stringify(value) == [raw |-> "json", value |-> value]

\* What a write that stopped early left of a line: a proper prefix of the
\* serialisation, or all of it but the newline
PartialLine == [raw |-> "partial"]
Unterminated(value) == [raw |-> "unterminated", value |-> value]

\* Whether JSON.parse(line) returns
Parses(line) == line.raw \in {"json", "unterminated"}

\* Whether the line has its newline
Terminated(line) == line.raw \notin {"partial", "unterminated"}

\* The lines of a file, none when it does not exist
Lines(file) == IF file = MissingFile THEN <<>> ELSE file.lines

\* fs.appendFileSync(filePath, data): data goes after the last byte of the
\* file, so on the line a cut write left open; the file is created when it
\* does not exist.  No serialisation that follows a fragment parses.
AppendFileSync(file, data) ==
    LET lines == Lines(file)
    IN IF lines # <<>> /\ ~Terminated(lines[Len(lines)])
       THEN TextFile([lines EXCEPT ![Len(lines)] =
                         IF Terminated(data) THEN CorruptLine ELSE PartialLine])
       ELSE TextFile(Append(lines, data))

JsonParse(line) == line.value

\* ------------------------------------------------------------------ append
AppendBusinessMessageMutLose(file, msg) == TextFile(<<Stringify(msg)>>)

AppendBusinessMessage(file, msg) == AppendFileSync(file, Stringify(msg))

DeletionMarker(messageIds, t) ==
    [messageId |-> 0, date |-> t \div MsPerSec, event |-> "deleted",
     deletedMessageIds |-> messageIds]

AppendDeletionMarker(file, messageIds, t) ==
    AppendBusinessMessage(file, DeletionMarker(messageIds, t))

\* -------------------------------------------------------------------- read
ParseLinesMutAbort(lines) ==
    LET nonBlank == SelectSeq(lines, LAMBDA l : l.raw # "blank")
        bad == {i \in DOMAIN nonBlank : ~Parses(nonBlank[i])}
        n == IF bad = {} THEN Len(nonBlank)
             ELSE (CHOOSE i \in bad : \A j \in bad : i <= j) - 1
    IN [i \in 1..n |-> JsonParse(nonBlank[i])]

\* The loop over raw.split("\n").filter((l) => l.trim()): each line parsed,
\* "Skip corrupt lines."
ParseLines(lines) ==
    LET nonBlank == SelectSeq(lines, LAMBDA l : l.raw # "blank")
        parsed == SelectSeq(nonBlank, Parses)
    IN [i \in DOMAIN parsed |-> JsonParse(parsed[i])]

\* The outer try: readFileSync throws on a missing file, and [] is returned.
ReadJsonl(file) == IF file = MissingFile THEN <<>> ELSE ParseLines(file.lines)

\* ------------------------------------------------------------- deduplicate
\* First loop: the ids named by any deletion marker of the log.
DeletedIdsMutNone(records) == {}

DeletedIds(records) ==
    UNION {Range(records[i].deletedMessageIds) :
             i \in {j \in DOMAIN records :
                       /\ records[j].event = "deleted"
                       /\ "deletedMessageIds" \in DOMAIN records[j]}}

\* byId.set(r.messageId, r): a Map keeps a key at the place of its first
\* insertion and replaces its value.
MapSetMutKeepFirst(byId, r) ==
    IF \E i \in DOMAIN byId : byId[i].messageId = r.messageId
    THEN byId
    ELSE Append(byId, r)

MapSet(byId, r) ==
    IF \E i \in DOMAIN byId : byId[i].messageId = r.messageId
    THEN [i \in DOMAIN byId |->
             IF byId[i].messageId = r.messageId THEN r ELSE byId[i]]
    ELSE Append(byId, r)

\* byId.set(r.messageId, r) for each r of records in turn: for the first half
\* of the records, then for the second half.  (TLC evaluates an argument
\* when it is first used; the test on firstDone has the first half finished
\* before the second one starts, which keeps the evaluation shallow.)
RECURSIVE SetEach(_, _)
SetEach(byId, records) ==
    IF Len(records) = 0 THEN byId
    ELSE IF Len(records) = 1 THEN MapSet(byId, records[1])
    ELSE LET half == Len(records) \div 2
             firstDone == SetEach(byId, SubSeq(records, 1, half))
         IN IF Len(firstDone) >= 0
            THEN SetEach(firstDone, SubSeq(records, half + 1, Len(records)))
            ELSE firstDone

LatestByIdMutKeepAll(records, deletedIds) ==
    SelectSeq(records, LAMBDA r :
       r.event # "deleted" /\ r.messageId \notin deletedIds)

\* Second loop: [...byId.values()] after every record was visited, the
\* deletion markers and the records of deleted ids passed over.
LatestById(records, deletedIds) ==
    SetEach(<<>>, SelectSeq(records, LAMBDA r :
                     r.event # "deleted" /\ r.messageId \notin deletedIds))

\* (a, b) => a.date - b.date || a.messageId - b.messageId
CompareMutIdOnly(a, b) == a.messageId - b.messageId

Compare(a, b) ==
    IF a.date - b.date # 0 THEN a.date - b.date ELSE a.messageId - b.messageId

\* One step of a stable sort: r goes after the elements of the sorted list
\* that do not follow it, which are its first k elements.
InsertSorted(sorted, r) ==
    LET k == Cardinality({i \in DOMAIN sorted : Compare(sorted[i], r) <= 0})
    IN SubSeq(sorted, 1, k) \o <<r>> \o SubSeq(sorted, k + 1, Len(sorted))

\* The elements of s inserted in turn: its first half, then its second half.
RECURSIVE InsertEach(_, _)
InsertEach(sorted, s) ==
    IF Len(s) = 0 THEN sorted
    ELSE IF Len(s) = 1 THEN InsertSorted(sorted, s[1])
    ELSE LET half == Len(s) \div 2
             firstDone == InsertEach(sorted, SubSeq(s, 1, half))
         IN IF Len(firstDone) >= 0
            THEN InsertEach(firstDone, SubSeq(s, half + 1, Len(s)))
            ELSE firstDone

\* Array.prototype.toSorted with the comparator above, a stable sort
ToSorted(s) == InsertEach(<<>>, s)

DeduplicateMessagesMutOnePass(records) ==
    LET at == [i \in DOMAIN records |-> [i |-> i, r |-> records[i]]]
        live == SelectSeq(at, LAMBDA x :
                   x.r.event # "deleted"
                   /\ x.r.messageId
                         \notin DeletedIds(SubSeq(records, x.i + 1, Len(records))))
    IN ToSorted(SetEach(<<>>, [k \in DOMAIN live |-> live[k].r]))

DeduplicateMessages(records) ==
    ToSorted(LatestById(records, DeletedIds(records)))

\* -------------------------------------------------------- loadChatMessages
\* (m) => m.messageId > opts.after
IdAfterMutInclusive(m, after) == m.messageId >= after

IdAfter(m, after) == m.messageId > after

\* (m) => m.messageId < opts.before
IdBefore(m, before) == m.messageId < before

\* opts?.limit ?? 50
LimitOfMutUnbounded(opts) == IF "limit" \in DOMAIN opts THEN opts.limit ELSE 0

LimitOf(opts) == IF "limit" \in DOMAIN opts THEN opts.limit ELSE DefaultLimit

\* opts is a record that has the keys the caller passed (limit, before, after)
LoadChatMessages(file, opts) ==
    LET all == DeduplicateMessages(ReadJsonl(file))
        afterKept == IF "after" \in DOMAIN opts
                     THEN SelectSeq(all, LAMBDA m : IdAfter(m, opts.after))
                     ELSE all
        beforeKept == IF "before" \in DOMAIN opts
                      THEN SelectSeq(afterKept, LAMBDA m : IdBefore(m, opts.before))
                      ELSE afterKept
        limit == LimitOf(opts)
    IN IF limit > 0 /\ Len(beforeKept) > limit
       THEN SliceLast(beforeKept, limit)
       ELSE beforeKept

\* No options given
NoOpts == [k \in {} |-> 0]

\* ---------------------------------------------------- searchBusinessMessages
\* String.prototype.toLowerCase, character by character
LowerOf(ch) == CASE ch = "A" -> "a" [] ch = "B" -> "b" [] OTHER -> ch

ToLowerCase(str) == [i \in DOMAIN str |-> LowerOf(str[i])]

\* str.includes(part)
Includes(str, part) ==
    \E i \in 0..(Len(str) - Len(part)) : SubSeq(str, i + 1, i + Len(part)) = part

\* m.text ?? m.caption ?? ""
SearchTextMutCaptionFirst(m) ==
    IF "caption" \in DOMAIN m THEN m.caption
    ELSE IF "text" \in DOMAIN m THEN m.text
    ELSE <<>>

SearchText(m) ==
    IF "text" \in DOMAIN m THEN m.text
    ELSE IF "caption" \in DOMAIN m THEN m.caption
    ELSE <<>>

\* opts?.limit ?? 20
SearchLimitOfMutNoDefault(opts) ==
    IF "limit" \in DOMAIN opts THEN opts.limit ELSE DefaultLimit

SearchLimitOf(opts) ==
    IF "limit" \in DOMAIN opts THEN opts.limit ELSE DefaultSearchLimit

\* One turn of the inner loop: the break, or the test and the push
Collect(results, m, cid, lowerQuery, limit) ==
    IF Len(results) >= limit THEN results
    ELSE IF Includes(ToLowerCase(SearchText(m)), lowerQuery)
    THEN Append(results, Spread(m, [chatId |-> cid]))
    ELSE results

\* The inner loop over the messages of a chat: over their first half, then
\* over their second half
RECURSIVE ScanEach(_, _, _, _, _)
ScanEach(results, messages, cid, lowerQuery, limit) ==
    IF Len(messages) = 0 THEN results
    ELSE IF Len(messages) = 1 THEN Collect(results, messages[1], cid, lowerQuery, limit)
    ELSE LET half == Len(messages) \div 2
             firstDone == ScanEach(results, SubSeq(messages, 1, half),
                                   cid, lowerQuery, limit)
         IN IF Len(firstDone) >= 0
            THEN ScanEach(firstDone, SubSeq(messages, half + 1, Len(messages)),
                          cid, lowerQuery, limit)
            ELSE firstDone

\* The outer loop over chatIds; files[cid] is the log of chat cid
RECURSIVE ScanChats(_, _, _, _, _)
ScanChats(results, chatIds, files, lowerQuery, limit) ==
    IF chatIds = <<>> THEN results
    ELSE IF Len(results) >= limit THEN results
    ELSE LET cid == Head(chatIds)
             messages == DeduplicateMessages(ReadJsonl(files[cid]))
         IN ScanChats(ScanEach(results, messages, cid, lowerQuery, limit),
                      Tail(chatIds), files, lowerQuery, limit)

\* fs.readdirSync(chatsPath) returned: the names of the chat directories, each
\* the decimal form of a chat id (Number(e) is that id, and is finite)
DirListing(entries) == [raw |-> "dir", entries |-> entries]

\* listing is what fs.readdirSync gives for the chats directory, MissingFile
\* when it throws; opts has the keys the caller passed (chatId, limit)
SearchBusinessMessages(files, listing, query, opts) ==
    LET lowerQuery == ToLowerCase(query)
        limit == SearchLimitOf(opts)
    IN IF "chatId" \in DOMAIN opts
       THEN ScanChats(<<>>, <<opts.chatId>>, files, lowerQuery, limit)
       ELSE IF listing = MissingFile THEN <<>>
       ELSE ScanChats(<<>>, listing.entries, files, lowerQuery, limit)

\* -------------------------------------------------------- connection store
\* conn.id of the connections the platform reports
ConnIds == {"c1", "c2", "c3"}
\* updatedAt of the records a caller of saveBusinessConnection passes
UpdatedAts == {100, 200, 300}

\* A StoredBusinessConnection: the fields the store reads (id, isEnabled,
\* updatedAt); the others are written and read by no operation of the store.
StoredConnection(id, isEnabled, updatedAt) ==
    [id |-> id, isEnabled |-> isEnabled, updatedAt |-> updatedAt]

\* { version: 1, connections: {} }
EmptyStore == [version |-> 1, connections |-> <<>>]

\* parsed.version === 1 && parsed.connections
IsCurrentMutAnyVersion(parsed) == "connections" \in DOMAIN parsed

IsCurrent(parsed) ==
    /\ "version" \in DOMAIN parsed
    /\ parsed.version = 1
    /\ "connections" \in DOMAIN parsed

LoadBusinessConnections(file) ==
    IF Parses(file) /\ IsCurrent(JsonParse(file)) THEN JsonParse(file)
    ELSE EmptyStore

\* store.connections[conn.id] = conn: the key keeps its place when the object
\* has it, and comes last otherwise
ObjectSetMutPush(object, conn) == Append(object, conn)

ObjectSet(object, conn) ==
    IF \E i \in DOMAIN object : object[i].id = conn.id
    THEN [i \in DOMAIN object |-> IF object[i].id = conn.id THEN conn ELSE object[i]]
    ELSE Append(object, conn)

\* The new content of connections.json
SaveBusinessConnection(file, conn) ==
    LET store == LoadBusinessConnections(file)
    IN Stringify([store EXCEPT !.connections = ObjectSet(@, conn)])

\* if (!conn.isEnabled) continue
SkipsMutNever(conn) == FALSE

Skips(conn) == ~conn.isEnabled

\* The loop over Object.values(store.connections); best is <<>> while it is
\* undefined and <<conn>> afterwards
RECURSIVE BestOf(_, _)
BestOf(best, conns) ==
    IF conns = <<>> THEN best
    ELSE LET conn == Head(conns)
         IN IF Skips(conn) THEN BestOf(best, Tail(conns))
            ELSE IF best = <<>> THEN BestOf(<<conn>>, Tail(conns))
            ELSE IF conn.updatedAt > best[1].updatedAt
            THEN BestOf(<<conn>>, Tail(conns))
            ELSE BestOf(best, Tail(conns))

Undefined == "undefined"

\* best?.id
GetActiveBusinessConnectionId(file) ==
    LET best == BestOf(<<>>, LoadBusinessConnections(file).connections)
    IN IF best = <<>> THEN Undefined ELSE best[1].id

\* ---------------------------------------------------------- updateChatMeta
NewChatMeta(chatId) ==
    [chatId |-> chatId, firstName |-> "", lastMessageAt |-> 0, messageCount |-> 0]

\* The document read back, or the default when the read or the parse throws
ExistingMeta(file, chatId) ==
    IF Parses(file) THEN JsonParse(file) ELSE NewChatMeta(chatId)

UpdatedMetaMutSpreadLast(existing, chatId, rest, incrementCount) ==
    Spread([chatId |-> chatId,
            messageCount |-> IF incrementCount THEN existing.messageCount + 1
                             ELSE existing.messageCount],
           Spread(existing, rest))

UpdatedMetaMutAlways(existing, chatId, rest, incrementCount) ==
    Spread(Spread(existing, rest),
           [chatId |-> chatId, messageCount |-> existing.messageCount + 1])

\* { ...existing, ...rest, chatId, messageCount: ... }
UpdatedMeta(existing, chatId, rest, incrementCount) ==
    Spread(Spread(existing, rest),
           [chatId |-> chatId,
            messageCount |-> IF incrementCount THEN existing.messageCount + 1
                             ELSE existing.messageCount])

\* The new content of meta.json
UpdateChatMeta(file, chatId, rest, incrementCount) ==
    Stringify(UpdatedMeta(ExistingMeta(file, chatId), chatId, rest, incrementCount))
\* ------------------------------------------------------- listBusinessChats
\* (a, b) => b.lastMessageAt - a.lastMessageAt
CompareMetaMutAscending(a, b) == a.lastMessageAt - b.lastMessageAt

CompareMeta(a, b) == b.lastMessageAt - a.lastMessageAt

\* The loop over entries: the documents that are read and parsed, in the
\* order of the listing; "Skip directories without valid meta."
RECURSIVE ReadMetas(_, _)
ReadMetas(entries, metaFiles) ==
    IF entries = <<>> THEN <<>>
    ELSE LET file == metaFiles[Head(entries)]
             rest == ReadMetas(Tail(entries), metaFiles)
         IN IF Parses(file) THEN <<JsonParse(file)>> \o rest ELSE rest

\* One step of the stable sort of metas.toSorted
InsertMeta(sorted, m) ==
    LET k == Cardinality({i \in DOMAIN sorted : CompareMeta(sorted[i], m) <= 0})
    IN SubSeq(sorted, 1, k) \o <<m>> \o SubSeq(sorted, k + 1, Len(sorted))

RECURSIVE SortMetas(_)
SortMetas(metas) ==
    IF metas = <<>> THEN <<>>
    ELSE InsertMeta(SortMetas(SubSeq(metas, 1, Len(metas) - 1)), metas[Len(metas)])

\* listing is what fs.readdirSync gives for the chats directory, MissingFile
\* when it throws; metaFiles[c] is the meta.json of chat c
ListBusinessChats(metaFiles, listing) ==
    IF listing = MissingFile THEN <<>>
    ELSE SortMetas(ReadMetas(listing.entries, metaFiles))

\* -------------------------------------------------- maybePruneChatMessages
\* maxMessages and maxAgeDays are opts.maxMessages || 0 and opts.maxAgeDays || 0
PruneDisabled(maxMessages, maxAgeDays) == maxMessages <= 0 /\ maxAgeDays <= 0

\* "Skip if raw count is within the message limit and no age filter applies."
WithinLimit(rawLength, maxMessages, maxAgeDays) ==
    maxMessages > 0 /\ rawLength <= maxMessages /\ maxAgeDays <= 0

DropExpiredMutStrict(messages, maxAgeDays, t) ==
    IF maxAgeDays > 0
    THEN LET cutoffSec == (t \div MsPerSec) - maxAgeDays * SecPerDay
         IN SelectSeq(messages, LAMBDA m : m.date > cutoffSec)
    ELSE messages

DropExpired(messages, maxAgeDays, t) ==
    IF maxAgeDays > 0
    THEN LET cutoffSec == (t \div MsPerSec) - maxAgeDays * SecPerDay
         IN SelectSeq(messages, LAMBDA m : m.date >= cutoffSec)
    ELSE messages

CapCountMutOffByOne(messages, maxMessages) ==
    IF maxMessages > 0 /\ Len(messages) > maxMessages + 1
    THEN SliceLast(messages, maxMessages)
    ELSE messages

CapCount(messages, maxMessages) ==
    IF maxMessages > 0 /\ Len(messages) > maxMessages
    THEN SliceLast(messages, maxMessages)
    ELSE messages

RetainedMutKeepDeleted(raw, maxMessages, maxAgeDays, t) ==
    CapCount(DropExpired(ToSorted(LatestById(raw, {})), maxAgeDays, t), maxMessages)

\* `messages` where the function decides whether to rewrite
Retained(raw, maxMessages, maxAgeDays, t) ==
    CapCount(DropExpired(DeduplicateMessages(raw), maxAgeDays, t), maxMessages)

\* "Only rewrite if compaction actually removed records."
KeepsFileMutRewriteOnEqual(retainedLength, rawLength) == retainedLength > rawLength

KeepsFile(retainedLength, rawLength) == retainedLength >= rawLength

\* Whether the call reaches fs.writeFileSync(filePath, ...)
RewritesLogMutNoSkip(file, maxMessages, maxAgeDays, t) ==
    ~PruneDisabled(maxMessages, maxAgeDays) /\ Len(ReadJsonl(file)) # 0

RewritesLog(file, maxMessages, maxAgeDays, t) ==
    LET raw == ReadJsonl(file)
    IN /\ ~PruneDisabled(maxMessages, maxAgeDays)
       /\ Len(raw) # 0
       /\ ~WithinLimit(Len(raw), maxMessages, maxAgeDays)
       /\ ~KeepsFile(Len(Retained(raw, maxMessages, maxAgeDays, t)), Len(raw))

\* messages.map((m) => JSON.stringify(m)).join("\n") + "\n"
WriteLines(messages) ==
    IF messages = <<>> THEN TextFile(<<BlankLine>>)
    ELSE TextFile([i \in DOMAIN messages |-> Stringify(messages[i])])

\* The content of messages.jsonl when the call returns
PrunedLog(file, maxMessages, maxAgeDays, t) ==
    IF RewritesLog(file, maxMessages, maxAgeDays, t)
    THEN WriteLines(Retained(ReadJsonl(file), maxMessages, maxAgeDays, t))
    ELSE file

\* "Sync meta message count to match retained messages."
SyncedMetaMutNoSync(file, retainedLength) == file

SyncedMeta(file, retainedLength) ==
    IF Parses(file)
    THEN Stringify([JsonParse(file) EXCEPT !.messageCount = retainedLength])
    ELSE file

\* The content of meta.json when the call returns
PrunedMeta(metaFile, file, maxMessages, maxAgeDays, t) ==
    IF RewritesLog(file, maxMessages, maxAgeDays, t)
    THEN SyncedMeta(metaFile,
                    Len(Retained(ReadJsonl(file), maxMessages, maxAgeDays, t)))
    ELSE metaFile

\* --------------------------------------------------------------- handlers
ChatFirstName == "Ann"

\* extractStoredMessage(msg, businessConnectionId, event)
ExtractStoredMessage(messageId, date, body, event) ==
    Spread([messageId |-> messageId, date |-> date, event |-> event], body)

\* The metadata update of the business_message handler
HandlerMeta(file, c, t) ==
    UpdateChatMeta(file, c, [firstName |-> ChatFirstName, lastMessageAt |-> t], TRUE)

\* The edited_business_message handler leaves meta.json alone.
EditedMetaMutIncrement(file, c, t) == HandlerMeta(file, c, t)

EditedMeta(file, c, t) == file

Op(name) == [op |-> name, rewrote |-> FALSE]

Init ==
    /\ log = [c \in AllChats |-> MissingFile]
    /\ meta = [c \in AllChats |-> MissingFile]
    /\ now = MaxDay * SecPerDay * MsPerSec
    /\ enabled \in BOOLEAN
    /\ incs = [c \in AllChats |-> 0]
    /\ handled = [c \in AllChats |-> 0]
    /\ last = Op("none")
    /\ connections = MissingFile
    /\ saved = NoOpts
    /\ deletedEver = [c \in AllChats |-> {}]

\* Time passes between two operations.
Tick ==
    /\ now + SecPerDay * MsPerSec \in Times
    /\ now' = now + SecPerDay * MsPerSec
    /\ last' = Op("tick")
    /\ UNCHANGED <<log, meta, enabled, incs, handled, connVars, deletedEver>>

\* bot.on("business_message", ...)
BusinessMessage(c, messageId, date, body) ==
    IF enabled
    THEN /\ log' = [log EXCEPT ![c] = AppendBusinessMessage(
                       @, ExtractStoredMessage(messageId, date, body, "new"))]
         /\ meta' = [meta EXCEPT ![c] = HandlerMeta(@, c, now)]
         /\ incs' = [incs EXCEPT ![c] = @ + 1]
         /\ handled' = [handled EXCEPT ![c] = @ + 1]
         /\ last' = Op("business_message")
         /\ UNCHANGED <<now, enabled, connVars, deletedEver>>
    ELSE UNCHANGED vars

\* bot.on("edited_business_message", ...)
EditedBusinessMessage(c, messageId, date, body) ==
    IF enabled
    THEN /\ log' = [log EXCEPT ![c] = AppendBusinessMessage(
                       @, ExtractStoredMessage(messageId, date, body, "edited"))]
         /\ meta' = [meta EXCEPT ![c] = EditedMeta(@, c, now)]
         /\ last' = Op("edited_business_message")
         /\ UNCHANGED <<now, enabled, incs, handled, connVars, deletedEver>>
    ELSE UNCHANGED vars

\* bot.on("deleted_business_messages", ...)
DeletedBusinessMessages(c, messageIds) ==
    IF enabled
    THEN /\ log' = [log EXCEPT ![c] = AppendDeletionMarker(@, messageIds, now)]
         /\ last' = Op("deleted_business_messages")
         /\ UNCHANGED <<meta, now, enabled, incs, handled, connVars, deletedEver>>
    ELSE UNCHANGED vars

\* bot.on("deleted_business_messages", ...), the ids the marker names being
\* noted in deletedEver
DeletedBusinessMessagesNoted(c, messageIds) ==
    IF enabled
    THEN /\ log' = [log EXCEPT ![c] = AppendDeletionMarker(@, messageIds, now)]
         /\ deletedEver' = [deletedEver EXCEPT ![c] = @ \cup Range(messageIds)]
         /\ last' = Op("deleted_business_messages")
         /\ UNCHANGED <<meta, now, enabled, incs, handled, connVars>>
    ELSE UNCHANGED vars

\* What fs.writeFileSync leaves of a document when it is cut short (the file
\* is truncated, then written): nothing JSON.parse accepts
CorruptDoc == [raw |-> "corrupt"]

\* bot.on("business_message", ...) when the write of meta.json is cut short
\* after the record was appended
BusinessMessageCut(c, messageId, date, body) ==
    /\ enabled
    /\ log' = [log EXCEPT ![c] = AppendBusinessMessage(
                  @, ExtractStoredMessage(messageId, date, body, "new"))]
    /\ meta' = [meta EXCEPT ![c] = CorruptDoc]
    /\ incs' = [incs EXCEPT ![c] = @ + 1]
    /\ handled' = [handled EXCEPT ![c] = @ + 1]
    /\ last' = Op("business_message cut")
    /\ UNCHANGED <<now, enabled, connVars, deletedEver>>

\* bot.on("business_message", ...) when the process stops inside
\* appendFileSync: part of the line is in the file (whole: all of it but the
\* newline), and updateChatMeta is never reached
BusinessMessageTorn(c, messageId, date, body, whole) ==
    /\ enabled
    /\ log' = [log EXCEPT ![c] = AppendFileSync(
                  @, IF whole
                     THEN Unterminated(ExtractStoredMessage(messageId, date, body, "new"))
                     ELSE PartialLine)]
    /\ last' = Op("business_message torn")
    /\ UNCHANGED <<meta, now, enabled, incs, handled, connVars, deletedEver>>

\* A caller's saveBusinessConnection(baseDir, conn)
SaveBusinessConnectionCall(conn) ==
    /\ connections' = SaveBusinessConnection(connections, conn)
    /\ saved' = Spread(saved, [k \in {conn.id} |-> conn])
    /\ last' = [op |-> "saveBusinessConnection", rewrote |-> FALSE,
                fresh |-> ~(Parses(connections) /\ IsCurrent(JsonParse(connections)))]
    /\ UNCHANGED <<log, meta, now, enabled, incs, handled, deletedEver>>

\* bot.on("business_connection", ...): the record is stamped with Date.now()
BusinessConnection(id, isEnabled) ==
    SaveBusinessConnectionCall(StoredConnection(id, isEnabled, now))

\* A caller's updateChatMeta(baseDir, c, partial): partial may carry any field.
Partials ==
    {NoOpts, [lastMessageAt |-> now],
     [firstName |-> ChatFirstName, lastMessageAt |-> now, messageCount |-> 0]}

UpdateChatMetaCall(c, rest, incrementCount) ==
    /\ meta' = [meta EXCEPT ![c] = UpdateChatMeta(@, c, rest, incrementCount)]
    /\ incs' = [incs EXCEPT ![c] = IF incrementCount THEN @ + 1 ELSE @]
    /\ last' = Op("updateChatMeta")
    /\ UNCHANGED <<log, now, enabled, handled, connVars, deletedEver>>

\* A caller's maybePruneChatMessages(baseDir, c, {maxMessages, maxAgeDays})
MaybePruneChatMessages(c, maxMessages, maxAgeDays) ==
    /\ log' = [log EXCEPT ![c] = PrunedLog(@, maxMessages, maxAgeDays, now)]
    /\ meta' = [meta EXCEPT ![c] =
                   PrunedMeta(@, log[c], maxMessages, maxAgeDays, now)]
    /\ last' = [op |-> "prune",
                rewrote |-> RewritesLog(log[c], maxMessages, maxAgeDays, now)]
    /\ UNCHANGED <<now, enabled, incs, handled, connVars, deletedEver>>

\* ---------------------------------------------------------- specifications
RECURSIVE LinesUpTo(_)
LinesUpTo(c) == IF c = 0 THEN 0 ELSE Len(Lines(log[c])) + LinesUpTo(c - 1)

\* The lines the logs hold together
TotalLines == LinesUpTo(MaxChat)

MessageCount(c) == IF Parses(meta[c]) THEN JsonParse(meta[c]).messageCount ELSE 0

\* The events the channel adapter delivers for the given chats, with the
\* given dates and bodies, while the logs hold fewer than k lines and the
\* chat has seen fewer than n new messages
EventsOf(chats, dates, bodies, k, n) ==
    \/ \E c \in chats, messageId \in MsgIds, date \in dates, body \in bodies :
          TotalLines < k /\ handled[c] < n /\ incs[c] < n
          /\ BusinessMessage(c, messageId, date, body)
    \/ \E c \in chats, messageId \in MsgIds, date \in dates, body \in bodies :
          TotalLines < k /\ EditedBusinessMessage(c, messageId, date, body)
    \/ \E c \in chats, messageIds \in DeletedIdLists :
          TotalLines < k /\ DeletedBusinessMessages(c, messageIds)

Events(k, n) == EventsOf(Chats, Dates, Bodies, k, n)

Prunes ==
    \E c \in Chats, maxMessages \in 0..MaxMessagesOpt, maxAgeDays \in 0..MaxAgeDaysOpt :
       MaybePruneChatMessages(c, maxMessages, maxAgeDays)

MetaCalls(n) ==
    \E c \in Chats, rest \in Partials, incrementCount \in BOOLEAN :
       /\ incrementCount => incs[c] < n
       /\ UpdateChatMetaCall(c, rest, incrementCount)

\* Every operation, interleaved
Next == Events(MaxLinesAll, MaxIncsAll) \/ Prunes \/ MetaCalls(MaxIncsAll)

Spec == Init /\ [][Next]_vars

\* The message store: the events and the pruning of the logs
NextStore == Events(MaxLines, MaxIncs) \/ Prunes

SpecStore == Init /\ [][NextStore]_vars

\* The events alone: no pruning, no other caller of updateChatMeta
NextEvents == Events(MaxLines, MaxIncs)

SpecEvents == Init /\ [][NextEvents]_vars

\* The chat directory alone
NextMeta == Tick \/ MetaCalls(MaxIncs)

SpecMeta == Init /\ [][NextMeta]_vars

\* The messages that are searched: texts and captions in both cases, one date
NextSearch == EventsOf(Chats, {0}, SearchBodies, MaxLines, MaxIncs)

SpecSearch == Init /\ [][NextSearch]_vars

\* The chat directory of three chats: the events, time, and metadata writes
\* that are cut short
NextDirectory ==
    \/ Tick
    \/ EventsOf(AllChats, {0}, Bodies, MaxLinesDir, MaxIncs)
    \/ \E c \in AllChats, messageId \in MsgIds, body \in Bodies :
          TotalLines < MaxLinesDir /\ BusinessMessageCut(c, messageId, 0, body)

SpecDirectory == Init /\ [][NextDirectory]_vars

\* The events with appends that are cut short, the process starting again
\* after each
NextCrash ==
    \/ EventsOf(Chats, {0}, Bodies, MaxLines, MaxIncs)
    \/ \E c \in Chats, messageId \in MsgIds, body \in Bodies, whole \in BOOLEAN :
          TotalLines < MaxLines /\ BusinessMessageTorn(c, messageId, 0, body, whole)

SpecCrash == Init /\ [][NextCrash]_vars

\* What connections.json may hold when the process starts: nothing, a
\* document cut short, the document of another schema version, a version-1
\* document without its connections
OlderDocs ==
    {MissingFile, CorruptDoc,
     Stringify([version |-> 2,
                connections |-> <<StoredConnection("c1", TRUE, 300)>>]),
     Stringify([version |-> 1])}

InitConnections ==
    /\ log = [c \in AllChats |-> MissingFile]
    /\ meta = [c \in AllChats |-> MissingFile]
    /\ now = MaxDay * SecPerDay * MsPerSec
    /\ enabled \in BOOLEAN
    /\ incs = [c \in AllChats |-> 0]
    /\ handled = [c \in AllChats |-> 0]
    /\ last = Op("none")
    /\ connections \in OlderDocs
    /\ saved = NoOpts
    /\ deletedEver = [c \in AllChats |-> {}]

\* The connection registry: the connection events, the direct saves, time
NextConnections ==
    \/ Tick
    \/ \E id \in ConnIds, isEnabled \in BOOLEAN : BusinessConnection(id, isEnabled)
    \/ \E id \in ConnIds, isEnabled \in BOOLEAN, updatedAt \in UpdatedAts :
          SaveBusinessConnectionCall(StoredConnection(id, isEnabled, updatedAt))

SpecConnections == InitConnections /\ [][NextConnections]_vars

\* The deletions of one chat: its messages, its edits, its deletion markers
\* with the ids they name noted, and its prunes
NextDeletions ==
    \/ \E messageId \in MsgIds, date \in Dates, body \in Bodies :
          /\ TotalLines < MaxLines /\ handled[1] < MaxIncs /\ incs[1] < MaxIncs
          /\ BusinessMessage(1, messageId, date, body)
    \/ \E messageId \in MsgIds, date \in Dates, body \in Bodies :
          TotalLines < MaxLines /\ EditedBusinessMessage(1, messageId, date, body)
    \/ \E messageIds \in DeletedIdLists :
          TotalLines < MaxLines /\ DeletedBusinessMessagesNoted(1, messageIds)
    \/ \E maxMessages \in 0..MaxMessagesOpt, maxAgeDays \in 0..MaxAgeDaysOpt :
          MaybePruneChatMessages(1, maxMessages, maxAgeDays)

SpecDeletions == Init /\ [][NextDeletions]_vars

\* msg.date one second before, at, and one second after the instant that is
\* one day before the clock's whole second
AgeDates == {(MaxDay - 1) * SecPerDay + d : d \in {-1, 0, 1}}

\* The message ids of the age specification: one more than the largest cap
AgeIds == 1..(MaxMessagesOpt + 1)

\* Date.now() on a whole second and at the last millisecond of that second
InitAge ==
    /\ log = [c \in AllChats |-> MissingFile]
    /\ meta = [c \in AllChats |-> MissingFile]
    /\ now \in {MaxDay * SecPerDay * MsPerSec,
                MaxDay * SecPerDay * MsPerSec + (MsPerSec - 1)}
    /\ enabled \in BOOLEAN
    /\ incs = [c \in AllChats |-> 0]
    /\ handled = [c \in AllChats |-> 0]
    /\ last = Op("none")
    /\ connections = MissingFile
    /\ saved = NoOpts
    /\ deletedEver = [c \in AllChats |-> {}]

\* One chat whose messages are dated around the age limit: its events and
\* its prunes
NextAge ==
    \/ \E messageId \in AgeIds, date \in AgeDates, body \in Bodies :
          /\ TotalLines < MaxLines /\ handled[1] < MaxIncs /\ incs[1] < MaxIncs
          /\ BusinessMessage(1, messageId, date, body)
    \/ \E messageId \in AgeIds, date \in AgeDates, body \in Bodies :
          TotalLines < MaxLines /\ EditedBusinessMessage(1, messageId, date, body)
    \/ \E messageIds \in DeletedIdLists :
          TotalLines < MaxLines /\ DeletedBusinessMessages(1, messageIds)
    \/ \E maxMessages \in 0..MaxMessagesOpt, maxAgeDays \in 0..MaxAgeDaysOpt :
          MaybePruneChatMessages(1, maxMessages, maxAgeDays)

SpecAge == InitAge /\ [][NextAge]_vars

\* msg.date of the messages of a long conversation: the platform delivers the
\* odd ids with a date one day after the even ones
BulkDate(messageId) == IF messageId % 2 = 1 THEN SecPerDay ELSE 0

\* msg.text of the messages of a long conversation: every third one differs
BulkBody(messageId) ==
    IF messageId % 3 = 0 THEN [text |-> <<"x">>] ELSE [text |-> <<"v", "1">>]

\* A long conversation: chat 1 receives new messages with ascending ids until
\* the logs hold MaxBulk lines together, the other chats MaxBulkOther each
NextBulk ==
    \E c \in Chats :
       /\ TotalLines < MaxBulk
       /\ c # 1 => handled[c] < MaxBulkOther
       /\ BusinessMessage(c, handled[c] + 1, BulkDate(handled[c] + 1),
                          BulkBody(handled[c] + 1))

SpecBulk == Init /\ [][NextBulk]_vars
\* ------------------------------------------------------------------ views
\* readJsonl of the chat's log
Raw(c) == ReadJsonl(log[c])

\* The chats that have a directory: ensureDir made it for the log or for the
\* metadata document
ChatDirs == {c \in AllChats : log[c] # MissingFile \/ meta[c] # MissingFile}

\* What fs.readdirSync(chatsPath) can give: it throws when no chat directory
\* was made, and lists the directories in an order of the file system's
\* choosing otherwise
ReaddirSync ==
    IF ChatDirs = {} THEN {MissingFile}
    ELSE {DirListing(entries) :
             entries \in {e \in [1..Cardinality(ChatDirs) -> ChatDirs] :
                            \A i, j \in DOMAIN e : e[i] = e[j] => i = j}}

\* The canonical view of the chat
View(c) == DeduplicateMessages(Raw(c))

IsMarker(r) == r.event = "deleted"

\* r is a deletion marker that names id
NamesId(r, id) ==
    IsMarker(r) /\ "deletedMessageIds" \in DOMAIN r /\ id \in Range(r.deletedMessageIds)

MaxOf(S) == CHOOSE m \in S : \A x \in S : x <= m

OneRecordPerId(view) ==
    \A k1, k2 \in DOMAIN view : view[k1].messageId = view[k2].messageId => k1 = k2

\* a is b with some elements left out, the order kept
RECURSIVE IsSubSeqOf(_, _)
IsSubSeqOf(a, b) ==
    IF a = <<>> THEN TRUE
    ELSE IF b = <<>> THEN FALSE
    ELSE IF Head(a) = Head(b) THEN IsSubSeqOf(Tail(a), Tail(b))
    ELSE IsSubSeqOf(a, Tail(b))

PruneOpts == (0..MaxMessagesOpt) \X (0..MaxAgeDaysOpt)

\* ----------------------------------------------------------------- claims

\* C1 as stated: the view holds at most one record per messageId, and for each
\* id it is the last-appended non-deletion record with that id that no later
\* deletion marker names; so a record appended after a marker naming its id
\* is in the view.
C1_AsStated ==
    \A c \in Chats : \A id \in MsgIds :
       LET raw == Raw(c)
           view == View(c)
           live == {i \in DOMAIN raw :
                       /\ ~IsMarker(raw[i])
                       /\ raw[i].messageId = id
                       /\ ~\E j \in DOMAIN raw : j > i /\ NamesId(raw[j], id)}
           inView == {k \in DOMAIN view : view[k].messageId = id}
       IN /\ OneRecordPerId(view)
          /\ live = {} => inView = {}
          /\ live # {} => \E k \in inView : view[k] = raw[MaxOf(live)]

\* C1 (amended): the view holds at most one record per messageId; for an id
\* that no deletion marker of the log names it is the last-appended
\* non-deletion record with that id, and an id that a marker names anywhere
\* in the log, before or after the record, has no record in the view.
C1_LatestUndeleted ==
    \A c \in Chats : \A id \in MsgIds :
       LET raw == Raw(c)
           view == View(c)
           named == \E j \in DOMAIN raw : NamesId(raw[j], id)
           versions == {i \in DOMAIN raw : ~IsMarker(raw[i]) /\ raw[i].messageId = id}
           inView == {k \in DOMAIN view : view[k].messageId = id}
       IN /\ OneRecordPerId(view)
          /\ \A k \in DOMAIN view : ~IsMarker(view[k])
          /\ (named \/ versions = {}) => inView = {}
          /\ (~named /\ versions # {}) =>
                \E k \in inView : view[k] = raw[MaxOf(versions)]

\* A chat whose log holds two different versions of a message that no marker
\* names, and a marker naming another id: the view shows the later version.
C1_Witness ==
    \E c \in Chats : \E i, j \in DOMAIN Raw(c) :
       /\ i < j
       /\ ~IsMarker(Raw(c)[i]) /\ ~IsMarker(Raw(c)[j])
       /\ Raw(c)[i].messageId = Raw(c)[j].messageId
       /\ Raw(c)[i] # Raw(c)[j]
       /\ \E m \in DOMAIN Raw(c) : IsMarker(Raw(c)[m])
       /\ View(c) = <<Raw(c)[j]>>

\* C2: when a deletion marker naming id X follows a 'new' record for X in the
\* log (with any number of 'edited' records for X), loadChatMessages returns
\* no record with messageId X.
C2_DeletedNotLoaded ==
    \A c \in Chats : \A id \in MsgIds :
       LET raw == Raw(c)
           loaded == LoadChatMessages(log[c], NoOpts)
       IN (\E i, j \in DOMAIN raw :
              /\ i < j
              /\ raw[i].event = "new" /\ raw[i].messageId = id
              /\ NamesId(raw[j], id))
          => \A k \in DOMAIN loaded : loaded[k].messageId # id

\* The scenario of the specification: new(1), edited(1), deleted([1]) and an
\* empty view.
C2_Witness ==
    \E c \in Chats :
       /\ Len(Raw(c)) = 3
       /\ Raw(c)[1].event = "new" /\ Raw(c)[1].messageId = 1
       /\ Raw(c)[2].event = "edited" /\ Raw(c)[2].messageId = 1
       /\ Raw(c)[2].date > Raw(c)[1].date
       /\ NamesId(Raw(c)[3], 1)
       /\ LoadChatMessages(log[c], NoOpts) = <<>>

\* C3 as stated: for every raw log, prune with maxMessages = N > 0 and no age
\* limit leaves exactly min(N, canonical_count) records in the log.
C3_AsStated ==
    \A c \in Chats : \A n \in 1..MaxMessagesOpt :
       Len(ReadJsonl(PrunedLog(log[c], n, 0, now))) = Min(n, Len(View(c)))

\* C3 (amended): when the raw record count exceeds N, prune with
\* maxMessages = N > 0 and no age limit leaves exactly min(N, canonical_count)
\* records; when the raw record count is at most N it leaves the log as it
\* is, edits and deletion markers included.
C3_PruneCount ==
    \A c \in Chats : \A n \in 1..MaxMessagesOpt :
       IF Len(Raw(c)) > n
       THEN Len(ReadJsonl(PrunedLog(log[c], n, 0, now))) = Min(n, Len(View(c)))
       ELSE PrunedLog(log[c], n, 0, now) = log[c]

\* A prune has cut a chat that saw two new messages down to one record.
C3_Witness ==
    /\ last.op = "prune" /\ last.rewrote
    /\ \E c \in Chats : Len(Lines(log[c])) = 1 /\ Len(Raw(c)) = 1 /\ handled[c] >= 2

\* C4: for every raw log and every N > 0, the prune that follows a
\* prune(maxMessages = N) with the same N rewrites nothing and leaves the log
\* and the metadata as the first one left them.
C4_PruneIdempotent ==
    \A c \in Chats : \A n \in 1..MaxMessagesOpt :
       LET log1 == PrunedLog(log[c], n, 0, now)
           meta1 == PrunedMeta(meta[c], log[c], n, 0, now)
       IN /\ ~RewritesLog(log1, n, 0, now)
          /\ PrunedLog(log1, n, 0, now) = log1
          /\ PrunedMeta(meta1, log1, n, 0, now) = meta1

\* A prune has just rewritten a log down to N records, N > 0; the same prune
\* again finds nothing to do.
C4_Witness ==
    /\ last.op = "prune" /\ last.rewrote
    /\ \E c \in Chats : \E n \in 1..MaxMessagesOpt :
          /\ Len(Raw(c)) = n
          /\ Parses(meta[c])
          /\ ~RewritesLog(log[c], n, 0, now)

\* C5: prune rewrites the log only if the retained count is strictly less
\* than the raw record count; the rewritten log holds exactly the retained
\* records, which are records of the canonical view in canonical order (no
\* deletion marker, no superseded version), one per line; a prune that does
\* not rewrite, and any prune with neither limit positive, changes nothing.
C5_PruneRewrite ==
    \A c \in Chats : \A o \in PruneOpts :
       LET raw == Raw(c)
           kept == Retained(raw, o[1], o[2], now)
           log1 == PrunedLog(log[c], o[1], o[2], now)
           meta1 == PrunedMeta(meta[c], log[c], o[1], o[2], now)
       IN IF RewritesLog(log[c], o[1], o[2], now)
          THEN /\ Len(kept) < Len(raw)
               /\ o[1] > 0 \/ o[2] > 0
               /\ ReadJsonl(log1) = kept
               /\ IsSubSeqOf(kept, View(c))
               /\ \A k \in DOMAIN kept : ~IsMarker(kept[k])
               /\ OneRecordPerId(kept)
               /\ IF kept = <<>> THEN log1 = TextFile(<<BlankLine>>)
                  ELSE /\ Len(Lines(log1)) = Len(kept)
                       /\ \A k \in DOMAIN Lines(log1) : Lines(log1)[k].raw = "json"
          ELSE log1 = log[c] /\ meta1 = meta[c]

\* A prune has rewritten a log that now holds two records in canonical order.
C5_Witness ==
    /\ last.op = "prune" /\ last.rewrote
    /\ \E c \in Chats :
          /\ Len(Raw(c)) = 2
          /\ Raw(c)[1].date < Raw(c)[2].date
          /\ Raw(c)[1].messageId > Raw(c)[2].messageId

\* C6: whenever a prune rewrites the log of a chat that has a metadata
\* document, the document's messageCount becomes the number of records the
\* rewritten log holds.
C6_PruneSyncsCount ==
    \A c \in Chats : \A o \in PruneOpts :
       (RewritesLog(log[c], o[1], o[2], now) /\ Parses(meta[c])) =>
          LET meta1 == PrunedMeta(meta[c], log[c], o[1], o[2], now)
          IN /\ Parses(meta1)
             /\ JsonParse(meta1).messageCount =
                   Len(ReadJsonl(PrunedLog(log[c], o[1], o[2], now)))

\* A prune has rewritten the log and lowered the counter of a chat to the
\* number of records left.
C6_Witness ==
    /\ last.op = "prune" /\ last.rewrote
    /\ \E c \in Chats :
          /\ Parses(meta[c])
          /\ MessageCount(c) = Len(Raw(c))
          /\ MessageCount(c) < handled[c]
          /\ MessageCount(c) >= 1

\* C7 as stated: over every sequence of updateChatMeta, append,
\* appendDeletionMarker and prune operations the stored messageCount of a
\* chat never decreases.
C7_AsStated == [][\A c \in Chats : MessageCount(c)' >= MessageCount(c)]_vars

\* C7 (amended): the stored messageCount of a chat never decreases over
\* updateChatMeta, append and appendDeletionMarker operations and over prune
\* calls that do not rewrite the log; a prune that rewrites the log sets it
\* to the number of records retained, which may be lower.
C7_CountMonotoneButPrune ==
    [][\A c \in Chats :
          \/ MessageCount(c)' >= MessageCount(c)
          \/ /\ last'.op = "prune" /\ last'.rewrote
             /\ MessageCount(c)' = Len(Raw(c)')]_vars

\* updateChatMeta ran on a chat whose counter a prune had lowered below the
\* number of increments.
C7_Witness ==
    /\ last.op = "updateChatMeta"
    /\ \E c \in Chats :
          /\ MessageCount(c) >= 1
          /\ MessageCount(c) < incs[c]
          /\ Len(Lines(log[c])) >= 1

\* C8: starting from a new chat, after k updateChatMeta calls with
\* incrementCount and any number without it, whatever partial carries,
\* messageCount is k: a call with the flag adds exactly one, a call without
\* it leaves messageCount as it is.
C8_CountIsFlaggedCalls ==
    \A c \in Chats :
       /\ MessageCount(c) = incs[c]
       /\ Parses(meta[c]) => JsonParse(meta[c]).chatId = c
       /\ ~Parses(meta[c]) => incs[c] = 0

\* Three calls with the flag, and a partial that carried a messageCount of
\* its own, leave messageCount = 3.
C8_Witness ==
    /\ last.op = "updateChatMeta"
    /\ \E c \in Chats :
          /\ incs[c] = 3
          /\ MessageCount(c) = 3
          /\ JsonParse(meta[c]).firstName = ChatFirstName

C10_AppendOnly ==
    [][last'.op \in {"business_message", "edited_business_message",
                     "deleted_business_messages"} =>
          \E c \in Chats :
             /\ \A o \in Chats \ {c} : log'[o] = log[o]
             /\ Len(Raw(c)') = Len(Raw(c)) + 1
             /\ SubSeq(Raw(c)', 1, Len(Raw(c))) = Raw(c)
             /\ LET r == Raw(c)'[Len(Raw(c)')]
                IN CASE last'.op = "business_message" -> r.event = "new"
                     [] last'.op = "edited_business_message" -> r.event = "edited"
                     [] OTHER -> IsMarker(r) /\ r.messageId = 0]_vars

\* A deletion marker was appended after a record of a chat while the other
\* chat holds a record.
C10_Witness ==
    /\ last.op = "deleted_business_messages"
    /\ \E c \in Chats :
          /\ Len(Raw(c)) = 2
          /\ IsMarker(Raw(c)[2])
          /\ \E o \in Chats \ {c} : Len(Raw(o)) = 1

\* The cursors a caller passes as after and before
Cursors == 0..(MaxMsgId + 1)

\* The records of s that satisfy P are exactly the records of t, in the order
\* of s
KeepsExactly(s, t, P(_)) ==
    /\ IsSubSeqOf(t, s)
    /\ \A k \in DOMAIN t : P(t[k])
    /\ \A k \in DOMAIN s : P(s[k]) => \E j \in DOMAIN t : t[j] = s[k]

\* C11: with no limit in the way, loadChatMessages with after = A returns
\* exactly the records of the canonical view with messageId > A, with
\* before = B those with messageId < B, with both those with
\* A < messageId < B, in canonical order; for a chat that has no log it
\* returns the empty sequence whatever the options.
C11_IdFilters ==
    \A c \in Chats : \A a, b \in Cursors :
       LET view == View(c)
           onlyAfter == LoadChatMessages(log[c], [after |-> a])
           onlyBefore == LoadChatMessages(log[c], [before |-> b, limit |-> 0])
           both == LoadChatMessages(log[c], [after |-> a, before |-> b])
       IN /\ KeepsExactly(view, onlyAfter, LAMBDA m : m.messageId > a)
          /\ KeepsExactly(view, onlyBefore, LAMBDA m : m.messageId < b)
          /\ KeepsExactly(view, both, LAMBDA m : a < m.messageId /\ m.messageId < b)
          /\ log[c] = MissingFile =>
                onlyAfter = <<>> /\ onlyBefore = <<>> /\ both = <<>>

\* One chat shows two messages of which after = 1 returns the second alone
\* and before = 2 the first alone, while the other chat has no log.
C11_Witness ==
    \E c \in Chats :
       /\ Len(View(c)) = 2
       /\ Len(Raw(c)) = 3
       /\ Len(LoadChatMessages(log[c], [after |-> 1])) = 1
       /\ LoadChatMessages(log[c], [after |-> 1])[1].messageId = 2
       /\ Len(LoadChatMessages(log[c], [after |-> 0, before |-> 2])) = 1
       /\ \E o \in Chats \ {c} :
             log[o] = MissingFile /\ LoadChatMessages(log[o], [after |-> 0]) = <<>>

\* The options a caller of loadChatMessages passes in a long conversation
PageOpts ==
    {Spread(Spread(a, b), l) :
        a \in {NoOpts, [after |-> 10]},
        b \in {NoOpts, [before |-> 45]},
        l \in {NoOpts} \cup {[limit |-> x] : x \in {-1, 0, 1, 2, DefaultLimit}}}

\* C12: loadChatMessages applies the limit after the id filters: when
\* limit > 0 and more than limit records pass the filters, the result is the
\* last limit of them in canonical order; when limit <= 0, or no more than
\* limit records pass, it is all of them; a call without a limit behaves as
\* one with limit 50.
C12_LimitAfterFilters ==
    \A c \in Chats :
       LET view == View(c)
       IN \A opts \in PageOpts :
             LET filtered ==
                     SelectSeq(view, LAMBDA m :
                        /\ "after" \in DOMAIN opts => m.messageId > opts.after
                        /\ "before" \in DOMAIN opts => m.messageId < opts.before)
                 n == Len(filtered)
                 limit == IF "limit" \in DOMAIN opts THEN opts.limit ELSE 50
                 page == LoadChatMessages(log[c], opts)
             IN IF limit > 0 /\ n > limit
                THEN /\ Len(page) = limit
                     /\ \A k \in 1..limit : page[k] = filtered[n - limit + k]
                ELSE page = filtered

\* A chat holds more than 50 messages: a call without a limit returns 50 of
\* them, the last one of the view included and the first one left out, and a
\* call with limit 0 returns them all.
C12_Witness ==
    \E c \in Chats :
       LET view == View(c)
           page == LoadChatMessages(log[c], NoOpts)
       IN /\ Len(view) > DefaultLimit
          /\ Len(page) = DefaultLimit
          /\ page[DefaultLimit] = view[Len(view)]
          /\ page[1] # view[1]
          /\ view[1].messageId = 2
          /\ LoadChatMessages(log[c], [limit |-> 0]) = view

\* C13: whatever the order of the appends, the canonical view is in ascending
\* (date, messageId) order: of two adjacent records the first has the smaller
\* date, or the same date and the smaller messageId.
C13_ViewSorted ==
    \A c \in Chats :
       LET view == View(c)
       IN \A k \in 1..(Len(view) - 1) :
             \/ view[k].date < view[k + 1].date
             \/ view[k].date = view[k + 1].date
                /\ view[k].messageId < view[k + 1].messageId

\* A chat received message 1, then message 2 with an earlier date, then an
\* edit of message 1: the view shows message 2 before message 1.
C13_Witness ==
    \E c \in Chats :
       /\ Len(Raw(c)) = 3
       /\ Raw(c)[1].messageId = 1 /\ Raw(c)[2].messageId = 2
       /\ Raw(c)[3].messageId = 1 /\ Raw(c)[3].event = "edited"
       /\ Len(View(c)) = 2
       /\ View(c)[1].messageId = 2 /\ View(c)[2].messageId = 1
       /\ View(c)[1].date < View(c)[2].date

\* Two characters that differ by their case at most
SameLetter(a, b) == a = b \/ {a, b} = {"a", "A"} \/ {a, b} = {"b", "B"}

\* part occurs in str when the case of the letters is ignored
ContainsIgnoringCase(str, part) ==
    \E offset \in 0..(Len(str) - Len(part)) :
       \A i \in DOMAIN part : SameLetter(str[offset + i], part[i])

\* The options a caller of searchBusinessMessages passes with a limit
SearchOpts ==
    {Spread(l, o) :
        l \in {[limit |-> x] : x \in 0..MaxSearchLimit},
        o \in {NoOpts} \cup {[chatId |-> c] : c \in Chats}}

\* r without the chatId the search added to it
StoredPart(r) == [k \in (DOMAIN r) \ {"chatId"} |-> r[k]]

\* C14: searchBusinessMessages(query, {limit: L}) returns at most L results;
\* every result is a record of the canonical view of its chat whose text, or
\* caption when it has no text, contains the query when case is ignored; it
\* is never a deletion marker, a record of a deleted message or a superseded
\* version of a message.
C14_SearchResults ==
    \A listing \in ReaddirSync : \A query \in Queries : \A opts \in SearchOpts :
       LET results == SearchBusinessMessages(log, listing, query, opts)
       IN /\ Len(results) <= opts.limit
          /\ \A k \in DOMAIN results :
                LET r == results[k]
                    raw == Raw(r.chatId)
                    view == View(r.chatId)
                    searched == IF "text" \in DOMAIN r THEN r.text
                                ELSE IF "caption" \in DOMAIN r THEN r.caption
                                ELSE <<>>
                IN /\ \E j \in DOMAIN view : view[j] = StoredPart(r)
                   /\ ContainsIgnoringCase(searched, query)
                   /\ ~IsMarker(r)
                   /\ \A j \in DOMAIN raw : ~NamesId(raw[j], r.messageId)
                   /\ \E j \in DOMAIN raw :
                         /\ raw[j] = StoredPart(r)
                         /\ \A i \in (j + 1)..Len(raw) :
                               raw[i].messageId # r.messageId

\* A chat holds a message whose first version matched "ab" and whose edit has
\* another text (and a caption that would match), and a message with a
\* matching caption and no text: the search for "AB" returns the second
\* message alone.
C14_Witness ==
    \E c \in Chats : \E o \in Chats \ {c} : \E listing \in ReaddirSync :
       LET results == SearchBusinessMessages(log, listing, <<"A", "B">>,
                                             [limit |-> MaxSearchLimit])
       IN /\ Len(Raw(c)) = 3 /\ Len(View(c)) = 2
          /\ \E i, j \in DOMAIN Raw(c) :
                /\ i < j
                /\ Raw(c)[i].messageId = Raw(c)[j].messageId
                /\ Raw(c)[i] # Raw(c)[j]
                /\ ContainsIgnoringCase(SearchText(Raw(c)[i]), <<"a", "b">>)
                /\ "caption" \in DOMAIN Raw(c)[j] /\ "text" \in DOMAIN Raw(c)[j]
          /\ Len(results) = 1
          /\ results[1].chatId = c
          /\ "text" \notin DOMAIN results[1]
          /\ log[o] = MissingFile

\* The matches of the chats of chatIds, chat after chat, each chat's in the
\* order of its canonical view, with the chat's id added
RECURSIVE MatchesOf(_, _)
MatchesOf(chatIds, query) ==
    IF chatIds = <<>> THEN <<>>
    ELSE LET c == Head(chatIds)
             found == SelectSeq(View(c), LAMBDA m :
                         ContainsIgnoringCase(
                            IF "text" \in DOMAIN m THEN m.text
                            ELSE IF "caption" \in DOMAIN m THEN m.caption
                            ELSE <<>>, query))
         IN [k \in DOMAIN found |-> [chatId |-> c] @@ found[k]]
               \o MatchesOf(Tail(chatIds), query)

\* The options a caller of searchBusinessMessages passes in long conversations
BulkSearchOpts ==
    {Spread(l, o) :
        l \in {NoOpts} \cup {[limit |-> x] : x \in {0, 1, 20, 25}},
        o \in {NoOpts} \cup {[chatId |-> c] : c \in Chats}}

\* C15: the result of searchBusinessMessages is the first limit elements, 20
\* when no limit is given, of the sequence of all matches taken chat after
\* chat in the order the directory listing gives the chats and, inside a
\* chat, in canonical order; with chatId given the matches are those of that
\* chat alone; nothing found after the limit is reached is returned.
C15_SearchOrder ==
    \A listing \in ReaddirSync :
       \A query \in {<<"v">>, <<"v", "1">>, <<"x">>, <<"1", "v">>} :
          \A opts \in BulkSearchOpts :
             LET chatIds == IF "chatId" \in DOMAIN opts THEN <<opts.chatId>>
                            ELSE IF listing = MissingFile THEN <<>>
                            ELSE listing.entries
                 all == MatchesOf(chatIds, query)
                 limit == IF "limit" \in DOMAIN opts THEN opts.limit ELSE 20
             IN SearchBusinessMessages(log, listing, query, opts)
                   = SubSeq(all, 1, Min(limit, Len(all)))

\* Chat 1 holds more than 20 matches and chat 2 one, and the directory lists
\* chat 2 first: a search without options returns 20 results, the one of
\* chat 2 and then the first 19 of chat 1 in canonical order; a search in
\* chat 1 alone returns its first 20.
C15_Witness ==
    LET listing == DirListing(<<2, 1>>)
        results == SearchBusinessMessages(log, listing, <<"v">>, NoOpts)
        inChat1 == SearchBusinessMessages(log, listing, <<"v">>, [chatId |-> 1])
    IN /\ listing \in ReaddirSync
       /\ Len(MatchesOf(<<1>>, <<"v">>)) > DefaultSearchLimit
       /\ Len(MatchesOf(<<2>>, <<"v">>)) = 1
       /\ Len(results) = DefaultSearchLimit
       /\ results[1].chatId = 2
       /\ results[2].chatId = 1 /\ results[2].messageId = 2
       /\ results[3].messageId = 4
       /\ Len(inChat1) = DefaultSearchLimit
       /\ inChat1[1] = results[2]

\* C16: a chat that has a log and a missing or unreadable metadata document is
\* searched by searchBusinessMessages without chatId, which returns its
\* matching messages; listBusinessChats leaves that chat out and returns the
\* documents of the chats that have a readable one, each once, ordered by
\* lastMessageAt descending.
C16_SearchedNotListed ==
    \A listing \in ReaddirSync :
       LET results == SearchBusinessMessages(log, listing, <<"v">>, NoOpts)
           chats == ListBusinessChats(meta, listing)
       IN /\ \A c \in AllChats :
                (log[c] # MissingFile /\ ~Parses(meta[c])) =>
                   /\ \A k \in DOMAIN View(c) :
                         \E j \in DOMAIN results :
                            results[j] = [chatId |-> c] @@ View(c)[k]
                   /\ \A k \in DOMAIN chats : chats[k].chatId # c
          /\ \A c \in AllChats :
                Parses(meta[c]) =>
                   \E k \in DOMAIN chats :
                      /\ chats[k] = JsonParse(meta[c])
                      /\ \A j \in DOMAIN chats : chats[j].chatId = c => j = k
          /\ \A k \in DOMAIN chats : Parses(meta[chats[k].chatId])
          /\ \A k \in 1..(Len(chats) - 1) :
                chats[k].lastMessageAt >= chats[k + 1].lastMessageAt

\* Of three chats one has a message and no readable metadata document; the
\* other two have documents, and the directory lists the less recent one
\* first: the search returns the message of the first chat, the list holds
\* the other two chats, the more recent one first.
C16_Witness ==
    \E listing \in ReaddirSync :
       LET results == SearchBusinessMessages(log, listing, <<"v">>, NoOpts)
           chats == ListBusinessChats(meta, listing)
           entries == listing.entries
       IN /\ ChatDirs = AllChats
          /\ ~Parses(meta[entries[1]])
          /\ Len(View(entries[1])) = 1
          /\ results[1].chatId = entries[1]
          /\ Len(chats) = 2
          /\ chats[1].chatId = entries[3] /\ chats[2].chatId = entries[2]
          /\ chats[1].lastMessageAt > chats[2].lastMessageAt

\* The ids whose latest saved record is enabled
EnabledIds == {id \in DOMAIN saved : saved[id].isEnabled}

\* C17: after any sequence of saveBusinessConnection calls,
\* getActiveBusinessConnectionId returns undefined exactly when the latest
\* saved record of no connection is enabled, and otherwise the id of a
\* connection whose latest saved record is enabled and has the greatest
\* updatedAt of the enabled ones; a disabled record never wins.
C17_ActiveConnection ==
    LET active == GetActiveBusinessConnectionId(connections)
    IN IF EnabledIds = {} THEN active = Undefined
       ELSE /\ active \in EnabledIds
            /\ \A id \in EnabledIds : saved[id].updatedAt <= saved[active].updatedAt

\* The scenario of the specification: two enabled connections with updatedAt
\* 100 and 200 and a disabled one with 300 that the document holds first;
\* the active connection is the one with 200.
C17_Witness ==
    /\ DOMAIN saved = ConnIds
    /\ \E a, b, d \in ConnIds :
          /\ saved[a] = StoredConnection(a, TRUE, 100)
          /\ saved[b] = StoredConnection(b, TRUE, 200)
          /\ saved[d] = StoredConnection(d, FALSE, 300)
          /\ LoadBusinessConnections(connections).connections[1].id = d
          /\ GetActiveBusinessConnectionId(connections) = b

\* The records a caller can save
ConnRecords ==
    {StoredConnection(id, isEnabled, updatedAt) :
        id \in ConnIds, isEnabled \in BOOLEAN, updatedAt \in UpdatedAts}

\* connections.json is a version-1 document that reads back
Readable(file) ==
    /\ file # MissingFile /\ file # CorruptDoc
    /\ "version" \in DOMAIN file.value /\ file.value.version = 1
    /\ "connections" \in DOMAIN file.value

\* C18: saveBusinessConnection is an upsert keyed by id: after save(r) over a
\* readable version-1 document, the loaded store holds r under r.id, holds
\* one record per id (the last one saved, no earlier one), and holds the
\* record of every other id as it was, and no other id.
C18_SaveUpserts ==
    /\ \A r \in ConnRecords :
          Readable(connections) =>
             LET before == LoadBusinessConnections(connections).connections
                 after == LoadBusinessConnections(
                             SaveBusinessConnection(connections, r)).connections
             IN /\ \E k \in DOMAIN after : after[k] = r
                /\ \A j, k \in DOMAIN after : after[j].id = after[k].id => j = k
                /\ \A j \in DOMAIN before :
                      before[j].id # r.id => \E k \in DOMAIN after : after[k] = before[j]
                /\ \A k \in DOMAIN after :
                      after[k].id # r.id => \E j \in DOMAIN before : before[j] = after[k]
    /\ LET stored == LoadBusinessConnections(connections).connections
       IN /\ \A id \in DOMAIN saved : \E k \in DOMAIN stored : stored[k] = saved[id]
          /\ Len(stored) = Cardinality(DOMAIN saved)

\* A connection was saved enabled, another one was saved, and the first one
\* was saved again, disabled and with a later updatedAt: the document holds
\* two records, the first connection's last one first.
C18_Witness ==
    /\ last.op = "saveBusinessConnection" /\ ~last.fresh
    /\ Readable(connections)
    /\ LET stored == LoadBusinessConnections(connections).connections
       IN /\ Len(stored) = 2
          /\ stored[1] = StoredConnection("c1", FALSE, 300)
          /\ stored[2].id = "c2"
          /\ GetActiveBusinessConnectionId(connections) = "c2"

\* C19: loadBusinessConnections always returns a version-1 store: the empty
\* store {version: 1, connections: {}} when connections.json is missing,
\* unparseable or of another version, the document otherwise; a save over a
\* missing, unparseable or other-version document leaves a store that holds
\* the saved record and nothing else.
C19_LoadHeals ==
    LET store == LoadBusinessConnections(connections)
        other == /\ connections # MissingFile /\ connections # CorruptDoc
                 /\ "version" \in DOMAIN connections.value
                 /\ connections.value.version # 1
    IN /\ store.version = 1 /\ "connections" \in DOMAIN store
       /\ (connections = MissingFile \/ connections = CorruptDoc \/ other) =>
             /\ store = [version |-> 1, connections |-> <<>>]
             /\ GetActiveBusinessConnectionId(connections) = Undefined
             /\ \A r \in ConnRecords :
                   LoadBusinessConnections(SaveBusinessConnection(connections, r))
                      = [version |-> 1, connections |-> <<r>>]
       /\ last.op = "saveBusinessConnection" =>
             /\ Readable(connections)
             /\ last.fresh => Len(store.connections) = 1

\* The first save found no readable version-1 document (none, a cut one, one
\* of version 2 that held an enabled connection): the store now holds the
\* saved record alone, which is disabled, and no connection is active.
C19_Witness ==
    /\ last.op = "saveBusinessConnection" /\ last.fresh
    /\ DOMAIN saved = {"c2"} /\ ~saved["c2"].isEnabled
    /\ LoadBusinessConnections(connections)
          = [version |-> 1, connections |-> <<saved["c2"]>>]
    /\ GetActiveBusinessConnectionId(connections) = Undefined
\* The lines of a log that JSON.parse accepts or that are blank
Sound(line) == Parses(line) \/ line.raw = "blank"

\* C20: readJsonl returns the records of the lines that parse, in file order:
\* a line that does not parse is skipped and the lines after it are still
\* read; a missing file reads as the empty sequence; the canonical view of a
\* log is the view of the log with its unparseable lines removed.
C20_ReadSkipsCorrupt ==
    /\ ReadJsonl(MissingFile) = <<>>
    /\ \A c \in Chats :
          LET lines == Lines(log[c])
              good == {i \in DOMAIN lines : Parses(lines[i])}
          IN /\ Len(Raw(c)) = Cardinality(good)
             /\ \A i \in good :
                   Raw(c)[Cardinality({j \in good : j <= i})] = lines[i].value
             /\ View(c) = DeduplicateMessages(
                              ReadJsonl(TextFile(SelectSeq(lines, Sound))))

\* A log holds a line that does not parse between two records of different
\* messages, and both records are read and are in the view.
C20_Witness ==
    \E c \in Chats :
       LET lines == Lines(log[c])
       IN /\ Len(lines) = 3
          /\ Parses(lines[1]) /\ lines[2] = CorruptLine /\ Parses(lines[3])
          /\ Len(Raw(c)) = 2
          /\ Raw(c)[1].messageId # Raw(c)[2].messageId
          /\ Len(View(c)) = 2
\* The edit records the adapter can deliver
EditRecords ==
    {ExtractStoredMessage(messageId, date, body, "edited") :
        messageId \in MsgIds, date \in Dates, body \in Bodies}

\* The view of a log file
ViewOf(file) == DeduplicateMessages(ReadJsonl(file))

\* C21: whatever a chat's log holds, appending one edit record to it twice in
\* a row gives the same canonical view as appending it once.
C21_DuplicateEditHarmless ==
    \A c \in Chats, e \in EditRecords :
       ViewOf(AppendBusinessMessage(AppendBusinessMessage(log[c], e), e))
          = ViewOf(AppendBusinessMessage(log[c], e))

\* The same edit of a message was appended twice in a row after the message
\* itself, and the view holds the edit once.
C21_Witness ==
    /\ last.op = "edited_business_message"
    /\ \E c \in Chats :
          /\ Len(Raw(c)) = 3
          /\ Raw(c)[1].event = "new"
          /\ Raw(c)[2].event = "edited"
          /\ Raw(c)[2].messageId = Raw(c)[1].messageId
          /\ Raw(c)[3] = Raw(c)[2]
          /\ View(c) = <<Raw(c)[3]>>
\* C22: a record that is not a deletion marker and whose messageId some
\* marker of the log names, before it or after it, is not in the canonical
\* view, and the view holds no deletion marker.
C22_DeletionAnyPosition ==
    \A c \in Chats :
       LET raw == Raw(c)
           view == View(c)
       IN /\ \A k \in DOMAIN view : ~IsMarker(view[k])
          /\ \A i, j \in DOMAIN raw :
                (~IsMarker(raw[i]) /\ NamesId(raw[j], raw[i].messageId))
                   => \A k \in DOMAIN view : view[k].messageId # raw[i].messageId

\* A marker naming a message was appended before the records of that message:
\* a 'new' and an 'edited' record follow it, and the view is empty.
C22_Witness ==
    \E c \in Chats :
       /\ Len(Raw(c)) = 3
       /\ NamesId(Raw(c)[1], Raw(c)[2].messageId)
       /\ Raw(c)[2].event = "new"
       /\ Raw(c)[3].event = "edited"
       /\ Raw(c)[3].messageId = Raw(c)[2].messageId
       /\ View(c) = <<>>
\* The second that is maxAgeDays days before the clock's second
CutoffSec(maxAgeDays) == (now \div MsPerSec) - maxAgeDays * SecPerDay

\* C23: after prune with the limits (maxMessages, maxAgeDays) the canonical
\* view of the chat is the view before with, when maxAgeDays > 0, the records
\* dated before now - maxAgeDays days removed (a record dated exactly at that
\* instant stays) and then, when maxMessages > 0, only the last maxMessages
\* records in canonical order; every record dropped precedes every record kept
\* in the canonical order, and with an age limit no record older than it is
\* kept.
C23_AgeThenCount ==
    \A o \in PruneOpts :
       LET view == View(1)
           after == ViewOf(PrunedLog(log[1], o[1], o[2], now))
           young == IF o[2] > 0
                    THEN SelectSeq(view, LAMBDA m : m.date >= CutoffSec(o[2]))
                    ELSE view
           kept == IF o[1] > 0 /\ Len(young) > o[1]
                   THEN SubSeq(young, Len(young) - o[1] + 1, Len(young))
                   ELSE young
       IN /\ after = kept
          /\ o[2] > 0 => \A k \in DOMAIN after : after[k].date >= CutoffSec(o[2])
          /\ \A d \in Range(view) \ Range(after), k \in Range(after) :
                d.date < k.date \/ (d.date = k.date /\ d.messageId < k.messageId)

\* A prune has rewritten the log after three new messages were handled: the
\* log now holds message 3, dated exactly one day before the clock, and
\* message 1, dated a second later; a prune of that log with both limits set
\* to 1 leaves message 1 alone.
C23_Witness ==
    /\ last.op = "prune" /\ last.rewrote
    /\ handled[1] = 3
    /\ Len(View(1)) = 2
    /\ View(1)[1].date = CutoffSec(1) /\ View(1)[1].messageId = 3
    /\ View(1)[2].date = CutoffSec(1) + 1 /\ View(1)[2].messageId = 1
    /\ ViewOf(PrunedLog(log[1], 1, 1, now)) = <<View(1)[2]>>
\* The message ids of the canonical view of a chat
ViewIds(c) == {View(c)[k].messageId : k \in DOMAIN View(c)}

\* The log of the chat holds a deletion marker that names id
Marked(c, id) == \E j \in DOMAIN Raw(c) : NamesId(Raw(c)[j], id)

\* C24 as stated: once a deletion marker naming id X has been appended to a
\* chat's log, no record with messageId X is in the canonical view, whatever
\* prunes and appends follow.
C24_AsStated ==
    \A id \in deletedEver[1] : id \notin ViewIds(1)

\* The records the adapter can deliver for a message that is new or edited
StoredRecords ==
    {ExtractStoredMessage(messageId, date, body, event) :
        messageId \in MsgIds, date \in Dates, body \in Bodies,
        event \in {"new", "edited"}}

\* The message ids of the canonical view of a log file
IdsIn(file) == {ViewOf(file)[k].messageId : k \in DOMAIN ViewOf(file)}

\* C24: for an id X that a deletion marker appended to the chat's log has
\* named: no record with messageId X is in the canonical view while a marker
\* naming X is in the log, whatever was appended after it; no prune and no
\* further marker brings X into the view; the append of a 'new' or 'edited'
\* record brings X into the view only when the record is for X and the log
\* holds no marker naming X any more (a prune has rewritten it).
C24_DeletedWhileMarked ==
    \A id \in deletedEver[1] :
       /\ Marked(1, id) => id \notin ViewIds(1)
       /\ id \notin ViewIds(1) =>
             /\ \A o \in PruneOpts :
                   id \notin IdsIn(PrunedLog(log[1], o[1], o[2], now))
             /\ \A messageIds \in DeletedIdLists :
                   id \notin IdsIn(AppendDeletionMarker(log[1], messageIds, now))
             /\ \A r \in StoredRecords :
                   id \in IdsIn(AppendBusinessMessage(log[1], r))
                      <=> (r.messageId = id /\ ~Marked(1, id))

\* A prune has rewritten the log in which a marker had named a message: the
\* log holds no marker any more, one record of another message is left of
\* the two new messages, and the named message is not in the view.
C24_Witness ==
    /\ last.op = "prune" /\ last.rewrote
    /\ \E id \in deletedEver[1] :
          /\ handled[1] = 2
          /\ ~Marked(1, id)
          /\ Len(Raw(1)) = 1
          /\ ViewIds(1) = MsgIds \ {id}
\* The records of the lines that an append wrote to the end, newline included
Completed(c) ==
    LET whole == SelectSeq(Lines(log[c]), LAMBDA l : l.raw = "json")
    IN [i \in DOMAIN whole |-> JsonParse(whole[i])]

\* C25 as stated: every record whose append completed is read from the log,
\* also after an append that was cut short: when a handler has appended a
\* record to a chat's log, the records read end with a record of that
\* handler's event, and the records whose appends had completed before are
\* still read, in their order.
C25_AsStated ==
    [][last'.op \in {"business_message", "edited_business_message",
                     "deleted_business_messages"} =>
          \A c \in Chats :
             log'[c] # log[c] =>
                /\ IsSubSeqOf(Completed(c), Raw(c)')
                /\ Raw(c)' # <<>>
                /\ LET r == Raw(c)'[Len(Raw(c)')]
                   IN CASE last'.op = "business_message" -> r.event = "new"
                        [] last'.op = "edited_business_message" -> r.event = "edited"
                        [] OTHER -> IsMarker(r)]_vars
====
